---- MODULE Spec2Model ----
(***************************************************************************)
(* Model of the tab container LapceWindowNew (core/src/window.rs).         *)
(*                                                                         *)
(* self.tabs is the ordered sequence of tab widgets (each identified by    *)
(* its WidgetId); data is the external LapceWindowData: the mapping        *)
(* data.tabs from tab identifier to per-tab state, data.active (a 0-based  *)
(* index into self.tabs) and data.active_id.  Every handler runs to        *)
(* completion on a single thread, so each handler is one action.           *)
(***************************************************************************)
EXTENDS Integers, Sequences, FiniteSets, TLC

\* Number of WidgetId::next() allocations explored (the counter is unbounded).
MaxIds == 4

Ids == 1..MaxIds

\* Option<T> as a sequence of length at most one.
None == <<>>
Some(x) == <<x>>

\* LapceWorkspace values carried by SetWorkspace: a path and a kind.
Workspaces ==
    { [path |-> <<"home", "u", "proj">>, kind |-> <<"Local">>],
      [path |-> <<"srv", "proj">>, kind |-> <<"RemoteSSH", "bob", "dev1">>] }

VARIABLES
    tabs,        \* self.tabs: sequence of the tab widgets' identifiers
    data,        \* LapceWindowData: [tabs, active, active_id]
    stops,       \* per identifier, how often proxy.stop() ran on its tab state
    nextId,      \* the value the next WidgetId::next() returns
    ctx,         \* the EventCtx of the last handler call, as the handler left it
    child_calls, \* calls of tabs[i].event(..) made by the last handler call
    lastEvent,   \* the event the last handler call was given
    old,         \* [tabs, data, stops] as the last handler call found them
    effects,     \* removals from data.tabs and proxy stops of the last event
                 \* handler call, in the order the handler made them
    pass,        \* what the last lifecycle, update, layout or paint call did
    outcome      \* "returned", or "panicked" once a handler call has panicked

vars == <<tabs, data, stops, nextId, ctx, child_calls, lastEvent, old,
          effects, pass, outcome>>

\* ---------------------------------------------------------------------------
\* Helpers for the containers the code uses
\* ---------------------------------------------------------------------------

\* Vec indexing is 0-based: v[i]
At(v, i) == v[i + 1]

\* v[i] = x
VecSet(v, i, x) == [v EXCEPT ![i + 1] = x]

\* Variant of VecInsert that pushes at the end
VecInsert_Push(v, i, x) == Append(v, x)

\* Vec::insert(i, x): x ends up at index i, later elements shift right
VecInsert(v, i, x) == SubSeq(v, 1, i) \o <<x>> \o SubSeq(v, i + 1, Len(v))

\* Variant of VecRemove that drops the last element
VecRemove_Last(v, i) == SubSeq(v, 1, Len(v) - 1)

\* Vec::remove(i): later elements shift left
VecRemove(v, i) == SubSeq(v, 1, i) \o SubSeq(v, i + 2, Len(v))

Range(v) == { v[k] : k \in 1..Len(v) }

\* HashMap::insert(k, x)
MapInsert(m, k, x) == [j \in DOMAIN m \cup {k} |-> IF j = k THEN x ELSE m[j]]

\* Variant of MapRemove that leaves the entry in the map
MapRemove_Keep(m, k) == m

\* HashMap::remove(k), the map that is left
MapRemove(m, k) == [j \in DOMAIN m \ {k} |-> m[j]]

\* The EventCtx a handler call starts with
FreshCtx ==
    [submitted |-> <<>>, is_handled |-> FALSE,
     layout_requested |-> FALSE, children_changed |-> FALSE]

\* ctx.submit_command(Command::new(LAPCE_UI_COMMAND, FocusTab, Target::Auto))
SubmitFocusTab(c) ==
    [c EXCEPT !.submitted = Append(@, [cmd |-> "FocusTab", target |-> "Auto"])]

\* ---------------------------------------------------------------------------
\* The operations, as functions of the state record
\*   s = [tabs, data, stops, nextId, ctx, child_calls, effects]
\* ---------------------------------------------------------------------------

\* tab.proxy.stop() on the state entry of identifier id
ProxyStop(st, id) == [st EXCEPT ![id] = @ + 1]

\* Variant of RemoveAndStop that drops the entry without stopping its proxy
RemoveAndStop_NoStop(m, st, id) ==
    [tabs |-> MapRemove(m, id), stops |-> st,
     log |-> <<[op |-> "remove", id |-> id]>>]

\* Variant of RemoveAndStop that stops the proxy while the entry is still in
\* the map and removes the entry afterwards
RemoveAndStop_StopFirst(m, st, id) ==
    IF id \in DOMAIN m
    THEN [tabs |-> MapRemove(m, id), stops |-> ProxyStop(st, id),
          log |-> <<[op |-> "stop", id |-> id], [op |-> "remove", id |-> id]>>]
    ELSE [tabs |-> m, stops |-> st, log |-> <<>>]

\* if let Some(tab) = data.tabs.remove(&id) { tab.proxy.stop(); }
\* gives the map that is left and the stop counts
RemoveAndStop(m, st, id) ==
    IF id \in DOMAIN m
    THEN [tabs |-> MapRemove(m, id), stops |-> ProxyStop(st, id),
          log |-> <<[op |-> "remove", id |-> id], [op |-> "stop", id |-> id]>>]
    ELSE [tabs |-> m, stops |-> st, log |-> <<>>]

\* The tail every mutating operation shares: FocusTab is submitted with
\* Target::Auto, children_changed, set_handled, request_layout.
NotifyChanged(c) ==
    [SubmitFocusTab(c) EXCEPT !.children_changed = TRUE,
                              !.is_handled = TRUE,
                              !.layout_requested = TRUE]

\* Variant of new_tab whose insert branch leaves data.active where it was
new_tab_NoAdvance(s, workspace, replace_current) ==
    LET tab_id == s.nextId
        inserted == MapInsert(s.data.tabs, tab_id, [workspace |-> workspace])
    IN  IF replace_current
        THEN LET r == RemoveAndStop(inserted, s.stops, s.data.active_id)
             IN  [s EXCEPT !.nextId = tab_id + 1,
                           !.tabs = VecSet(s.tabs, s.data.active, tab_id),
                           !.data = [tabs |-> r.tabs,
                                     active |-> s.data.active,
                                     active_id |-> tab_id],
                           !.stops = r.stops,
                           !.effects = r.log,
                           !.ctx = NotifyChanged(s.ctx)]
        ELSE [s EXCEPT !.nextId = tab_id + 1,
                       !.tabs = VecInsert(s.tabs, s.data.active + 1, tab_id),
                       !.data = [tabs |-> inserted,
                                 active |-> s.data.active,
                                 active_id |-> tab_id],
                       !.ctx = NotifyChanged(s.ctx)]

\* Variant of new_tab whose replace branch leaves data.active_id stale
new_tab_StaleActiveId(s, workspace, replace_current) ==
    LET tab_id == s.nextId
        inserted == MapInsert(s.data.tabs, tab_id, [workspace |-> workspace])
    IN  IF replace_current
        THEN LET r == RemoveAndStop(inserted, s.stops, s.data.active_id)
             IN  [s EXCEPT !.nextId = tab_id + 1,
                           !.tabs = VecSet(s.tabs, s.data.active, tab_id),
                           !.data = [tabs |-> r.tabs,
                                     active |-> s.data.active,
                                     active_id |-> s.data.active_id],
                           !.stops = r.stops,
                           !.effects = r.log,
                           !.ctx = NotifyChanged(s.ctx)]
        ELSE [s EXCEPT !.nextId = tab_id + 1,
                       !.tabs = VecInsert(s.tabs, s.data.active + 1, tab_id),
                       !.data = [tabs |-> inserted,
                                 active |-> s.data.active + 1,
                                 active_id |-> tab_id],
                       !.ctx = NotifyChanged(s.ctx)]

\* Variant of new_tab whose replace branch removes the entry of the new
\* identifier instead of the entry of data.active_id
new_tab_RemoveNew(s, workspace, replace_current) ==
    LET tab_id == s.nextId
        inserted == MapInsert(s.data.tabs, tab_id, [workspace |-> workspace])
    IN  IF replace_current
        THEN LET r == RemoveAndStop(inserted, s.stops, tab_id)
             IN  [s EXCEPT !.nextId = tab_id + 1,
                           !.tabs = VecSet(s.tabs, s.data.active, tab_id),
                           !.data = [tabs |-> r.tabs,
                                     active |-> s.data.active,
                                     active_id |-> tab_id],
                           !.stops = r.stops,
                           !.effects = r.log,
                           !.ctx = NotifyChanged(s.ctx)]
        ELSE [s EXCEPT !.nextId = tab_id + 1,
                       !.tabs = VecInsert(s.tabs, s.data.active + 1, tab_id),
                       !.data = [tabs |-> inserted,
                                 active |-> s.data.active + 1,
                                 active_id |-> tab_id],
                       !.ctx = NotifyChanged(s.ctx)]

\* LapceWindowNew::new_tab(ctx, data, workspace, replace_current)
new_tab(s, workspace, replace_current) ==
    LET tab_id == s.nextId
        tab_data == [workspace |-> workspace]
        inserted == MapInsert(s.data.tabs, tab_id, tab_data)
    IN  IF replace_current
        THEN LET r == RemoveAndStop(inserted, s.stops, s.data.active_id)
             IN  [s EXCEPT !.nextId = tab_id + 1,
                           !.tabs = VecSet(s.tabs, s.data.active, tab_id),
                           !.data = [tabs |-> r.tabs,
                                     active |-> s.data.active,
                                     active_id |-> tab_id],
                           !.stops = r.stops,
                           !.effects = r.log,
                           !.ctx = NotifyChanged(s.ctx)]
        ELSE [s EXCEPT !.nextId = tab_id + 1,
                       !.tabs = VecInsert(s.tabs, s.data.active + 1, tab_id),
                       !.data = [tabs |-> inserted,
                                 active |-> s.data.active + 1,
                                 active_id |-> tab_id],
                       !.ctx = NotifyChanged(s.ctx)]

\* Variant of ClampActive that falls back to the first tab
ClampActive_First(active, len) == IF active >= len THEN 0 ELSE active

\* The clamp of close_tab: the index that is active once the widget is removed
ClampActive(active, len) == IF active >= len THEN len - 1 ELSE active

\* Variant of close_tab that notifies before it tests for the single tab
close_tab_NotifyFirst(s) ==
    IF Cardinality(DOMAIN s.data.tabs) = 1
    THEN [s EXCEPT !.ctx = NotifyChanged(s.ctx)]
    ELSE LET removed == VecRemove(s.tabs, s.data.active)
             r == RemoveAndStop(s.data.tabs, s.stops, s.data.active_id)
             active == ClampActive(s.data.active, Len(removed))
         IN  [s EXCEPT !.tabs = removed,
                       !.data = [tabs |-> r.tabs,
                                 active |-> active,
                                 active_id |-> At(removed, active)],
                       !.stops = r.stops,
                       !.effects = r.log,
                       !.ctx = NotifyChanged(s.ctx)]

\* LapceWindowNew::close_tab(ctx, data)
close_tab(s) ==
    IF Cardinality(DOMAIN s.data.tabs) = 1
    THEN s
    ELSE LET removed == VecRemove(s.tabs, s.data.active)
             r == RemoveAndStop(s.data.tabs, s.stops, s.data.active_id)
             active == ClampActive(s.data.active, Len(removed))
         IN  [s EXCEPT !.tabs = removed,
                       !.data = [tabs |-> r.tabs,
                                 active |-> active,
                                 active_id |-> At(removed, active)],
                       !.stops = r.stops,
                       !.effects = r.log,
                       !.ctx = NotifyChanged(s.ctx)]

\* Variant of NextIndex that stays on the last tab instead of wrapping
NextIndex_NoWrap(active, len) == IF active >= len - 1 THEN active ELSE active + 1

\* NextTab: the index the command selects
NextIndex(active, len) == IF active >= len - 1 THEN 0 ELSE active + 1

\* PreviousTab: the index the command selects
PreviousIndex(active, len) == IF active = 0 THEN len - 1 ELSE active - 1

\* Variant of SelectTab that does not mark the event handled
SelectTab_NotHandled(s, new_index) ==
    [s EXCEPT !.data = [@ EXCEPT !.active = new_index,
                                 !.active_id = At(s.tabs, new_index)],
              !.ctx = [SubmitFocusTab(s.ctx) EXCEPT !.layout_requested = TRUE]]

\* The body NextTab and PreviousTab share once new_index is computed
SelectTab(s, new_index) ==
    [s EXCEPT !.data = [@ EXCEPT !.active = new_index,
                                 !.active_id = At(s.tabs, new_index)],
              !.ctx = [SubmitFocusTab(s.ctx) EXCEPT !.layout_requested = TRUE,
                                                    !.is_handled = TRUE]]

\* Variant of ForwardToActive that calls the first tab
ForwardToActive_First(s) ==
    [s EXCEPT !.child_calls =
        Append(@, [id |-> At(s.tabs, 0), index |-> 0,
                   is_handled |-> s.ctx.is_handled])]

\* self.tabs[data.active].event(ctx, event, data, env): the call is recorded
\* with the tab it is made on and the handled flag the ctx carries into it.
ForwardToActive(s) ==
    [s EXCEPT !.child_calls =
        Append(@, [id |-> At(s.tabs, s.data.active),
                   index |-> s.data.active,
                   is_handled |-> s.ctx.is_handled])]

\* The kinds of event the handler distinguishes.  UICommandOther is a
\* LAPCE_UI_COMMAND the match does not name, CommandOther a command with
\* another selector, and the rest are events that are not commands.
CommandKinds == {"SetWorkspace", "NewTab", "CloseTab", "NextTab", "PreviousTab"}
OtherKinds == {"UICommandOther", "CommandOther", "KeyDown", "MouseDown"}

\* <LapceWindowNew as Widget>::event(ctx, event, data, env)
event(s, ev) ==
    IF ev.kind = "SetWorkspace" THEN new_tab(s, Some(ev.workspace[1]), TRUE)
    ELSE IF ev.kind = "NewTab" THEN new_tab(s, None, FALSE)
    ELSE IF ev.kind = "CloseTab" THEN close_tab(s)
    ELSE IF ev.kind = "NextTab"
         THEN ForwardToActive(
                  SelectTab(s, NextIndex(s.data.active, Len(s.tabs))))
    ELSE IF ev.kind = "PreviousTab"
         THEN ForwardToActive(
                  SelectTab(s, PreviousIndex(s.data.active, Len(s.tabs))))
    ELSE ForwardToActive(s)

\* ---------------------------------------------------------------------------
\* Where the event handler panics: an index past the end of self.tabs
\* (indexing, Vec::insert, Vec::remove) and len() - 1 on an empty Vec.
\* ---------------------------------------------------------------------------

\* Variant of close_tab_panics in which the removed entry is unwrapped
close_tab_panics_Unwrap(s) ==
    /\ Cardinality(DOMAIN s.data.tabs) # 1
    /\ \/ s.data.active >= Len(s.tabs)
       \/ Len(s.tabs) = 1
       \/ s.data.active_id \notin DOMAIN s.data.tabs

\* new_tab panics at self.tabs[data.active] = .. or at self.tabs.insert(..)
new_tab_panics(s, replace_current) ==
    IF replace_current
    THEN s.data.active >= Len(s.tabs)
    ELSE s.data.active + 1 > Len(s.tabs)

\* close_tab panics at self.tabs.remove(..), or once the last widget is gone
\* at self.tabs.len() - 1 / self.tabs[data.active]
close_tab_panics(s) ==
    /\ Cardinality(DOMAIN s.data.tabs) # 1
    /\ \/ s.data.active >= Len(s.tabs)
       \/ Len(s.tabs) = 1

\* NextTab panics on an empty self.tabs
next_tab_panics(s) == Len(s.tabs) = 0

\* PreviousTab panics on an empty self.tabs or when data.active - 1 is past
\* the end
previous_tab_panics(s) ==
    \/ Len(s.tabs) = 0
    \/ s.data.active # 0 /\ s.data.active - 1 >= Len(s.tabs)

\* <LapceWindowNew as Widget>::event panics
event_panics(s, ev) ==
    IF ev.kind = "SetWorkspace" THEN new_tab_panics(s, TRUE)
    ELSE IF ev.kind = "NewTab" THEN new_tab_panics(s, FALSE)
    ELSE IF ev.kind = "CloseTab" THEN close_tab_panics(s)
    ELSE IF ev.kind = "NextTab" THEN next_tab_panics(s)
    ELSE IF ev.kind = "PreviousTab" THEN previous_tab_panics(s)
    ELSE s.data.active >= Len(s.tabs)

\* ---------------------------------------------------------------------------
\* lifecycle, update, layout and paint.  Each gives the record of what the
\* call did: the child widgets it called, in order, and what it asked of its
\* context.
\* ---------------------------------------------------------------------------

\* No lifecycle, update, layout or paint call since the last event
NoPass ==
    [kind |-> "none", event |-> "none", input |-> <<>>,
     panicked |-> FALSE, calls |-> <<>>, layout_requests |-> 0,
     submitted |-> <<>>, geometry |-> <<>>, drawn |-> <<>>]

\* The lifecycle events the toolkit sends
LifeCycleKinds == {"WidgetAdded", "FocusChanged"}

\* Variant of lifecycle that reaches the active tab only
lifecycle_ActiveOnly(t, d) ==
    [NoPass EXCEPT !.kind = "lifecycle", !.calls = <<At(t, d.active)>>]

\* <LapceWindowNew as Widget>::lifecycle: for tab in self.tabs.iter_mut()
lifecycle(t, d) ==
    [NoPass EXCEPT !.kind = "lifecycle",
                   !.calls = [k \in 1..Len(t) |-> t[k]]]

\* update panics at one of the two unwraps or at self.tabs[data.active]
update_panics(t, old_data, d) ==
    \/ old_data.active_id \notin DOMAIN old_data.tabs
    \/ d.active_id \notin DOMAIN d.tabs
    \/ d.active >= Len(t)

\* Variant of update that does not compare the workspaces
update_IndexOnly(t, old_data, d) ==
    [NoPass EXCEPT
        !.kind = "update",
        !.input = old_data,
        !.layout_requests = IF old_data.active # d.active THEN 1 ELSE 0,
        !.calls = <<At(t, d.active)>>]

\* <LapceWindowNew as Widget>::update(ctx, old_data, data, env)
update(t, old_data, d) ==
    IF update_panics(t, old_data, d)
    THEN [NoPass EXCEPT !.kind = "update", !.input = old_data,
                        !.panicked = TRUE]
    ELSE LET old_tab == old_data.tabs[old_data.active_id]
             tab == d.tabs[d.active_id]
         IN  [NoPass EXCEPT
                 !.kind = "update",
                 !.input = old_data,
                 !.layout_requests =
                     (IF old_data.active # d.active THEN 1 ELSE 0)
                     + (IF old_tab.workspace # tab.workspace THEN 1 ELSE 0),
                 !.calls = <<At(t, d.active)>>]

\* let tab_height = 25.0
tab_height == 25

\* The sizes layout and paint are given, as <<width, height>>
Sizes == { <<800, 600>>, <<300, 20>> }

\* Target::Widget(id)
TargetWidget(id) == <<"Widget", id>>

\* Variant of layout that reserves the strip whatever the number of tabs
layout_AlwaysStrip(t, d, self_size) ==
    [NoPass EXCEPT
        !.kind = "layout",
        !.input = self_size,
        !.calls = <<At(t, d.active)>>,
        !.geometry = [bc_min |-> <<self_size[1], self_size[2] - tab_height>>,
                      bc_max |-> <<self_size[1], self_size[2] - tab_height>>,
                      origin |-> <<0, tab_height>>,
                      returned |-> self_size],
        !.submitted = <<[cmd |-> "UpdateWindowOrigin",
                         target |-> TargetWidget(d.active_id)]>>]

\* Variant of layout that sends UpdateWindowOrigin to the first tab
layout_OriginToFirst(t, d, self_size) ==
    LET strip == Len(t) > 1
        tab_size == IF strip THEN <<self_size[1], self_size[2] - tab_height>>
                    ELSE self_size
    IN  [NoPass EXCEPT
            !.kind = "layout",
            !.input = self_size,
            !.calls = <<At(t, d.active)>>,
            !.geometry = [bc_min |-> tab_size, bc_max |-> tab_size,
                          origin |-> IF strip THEN <<0, tab_height>>
                                     ELSE <<0, 0>>,
                          returned |-> self_size],
            !.submitted = <<[cmd |-> "UpdateWindowOrigin",
                             target |-> TargetWidget(At(t, 0))]>>]

\* <LapceWindowNew as Widget>::layout(ctx, bc, data, env), self_size = bc.max()
layout(t, d, self_size) ==
    IF d.active >= Len(t)
    THEN [NoPass EXCEPT !.kind = "layout", !.input = self_size,
                        !.panicked = TRUE]
    ELSE LET strip == Len(t) > 1
             tab_size == IF strip
                         THEN <<self_size[1], self_size[2] - tab_height>>
                         ELSE self_size
             tab_origin == IF strip THEN <<0, tab_height>> ELSE <<0, 0>>
         IN  [NoPass EXCEPT
                 !.kind = "layout",
                 !.input = self_size,
                 !.calls = <<At(t, d.active)>>,
                 !.geometry = [bc_min |-> tab_size, bc_max |-> tab_size,
                               origin |-> tab_origin,
                               returned |-> self_size],
                 !.submitted = <<[cmd |-> "UpdateWindowOrigin",
                                  target |-> TargetWidget(d.active_id)]>>]

\* w.path.file_name(): the last component, None when there is none or it is ..
file_name(path) ==
    IF Len(path) = 0 \/ path[Len(path)] = ".."
    THEN None
    ELSE Some(path[Len(path)])

\* Variant of TabLabel that labels a remote workspace host first
TabLabel_HostFirst(workspace) ==
    IF workspace = None
    THEN "Lapce"
    ELSE LET w == workspace[1]
             dir == file_name(w.path)[1]
         IN  IF w.kind[1] = "Local"
             THEN dir
             ELSE dir \o " [" \o w.kind[3] \o "@" \o w.kind[2] \o "]"

\* The label of a tab whose state has this workspace (an Option):
\* workspace.as_ref().map(..).unwrap_or("Lapce".to_string())
TabLabel(workspace) ==
    IF workspace = None
    THEN "Lapce"
    ELSE LET w == workspace[1]
             dir == file_name(w.path)[1]
         IN  IF w.kind[1] = "Local"
             THEN dir
             ELSE dir \o " [" \o w.kind[2] \o "@" \o w.kind[3] \o "]"

\* The label computation panics: file_name().unwrap() on a path without one
label_panics(workspace) ==
    workspace # None /\ file_name(workspace[1].path) = None

\* One drawing operation of paint
Draw(op, color, section, text) ==
    [op |-> op, color |-> color, section |-> section, text |-> text]

\* The body of the loop over self.tabs.iter().enumerate(), from index i on
RECURSIVE SectionOps(_, _, _)
SectionOps(t, d, i) ==
    IF i >= Len(t)
    THEN <<>>
    ELSE (IF i = d.active
          THEN <<Draw("fill", "LAPCE_ACTIVE_TAB", i, "")>>
          ELSE <<>>)
         \o <<Draw("text", "EDITOR_FOREGROUND", i,
                    TabLabel(d.tabs[At(t, i)].workspace))>>
         \o SectionOps(t, d, i + 1)

\* for i in 1..num: the lines between adjacent sections
Dividers(num) ==
    [i \in 1..(num - 1) |-> Draw("divider", "BORDER_LIGHT", i, "")]

\* paint panics at an unwrap of data.tabs.get(..) or of file_name(), which it
\* reaches only with more than one tab, or at self.tabs[data.active]
paint_panics(t, d) ==
    \/ /\ Len(t) > 1
       /\ \E k \in 1..Len(t) :
              \/ t[k] \notin DOMAIN d.tabs
              \/ label_panics(d.tabs[t[k]].workspace)
    \/ d.active >= Len(t)

\* <LapceWindowNew as Widget>::paint(ctx, data, env), size = ctx.size()
paint(t, d, size) ==
    IF paint_panics(t, d)
    THEN [NoPass EXCEPT !.kind = "paint", !.input = size, !.panicked = TRUE]
    ELSE LET child == <<Draw("child", "", d.active, "")>>
             under == <<Draw("fill", "LAPCE_INACTIVE_TAB", -1, "")>>
                      \o SectionOps(t, d, 0)
                      \o Dividers(Len(t))
             over == <<Draw("fill", "LAPCE_ACTIVE_TAB", d.active, ""),
                       Draw("text", "EDITOR_FOREGROUND", d.active,
                            TabLabel(d.tabs[At(t, d.active)].workspace)),
                       Draw("border", "BORDER_LIGHT", -1, "")>>
         IN  [NoPass EXCEPT
                 !.kind = "paint",
                 !.input = size,
                 !.calls = <<At(t, d.active)>>,
                 !.drawn = IF Len(t) > 1 THEN under \o child \o over
                           ELSE child]

\* ---------------------------------------------------------------------------
\* The state machine
\* ---------------------------------------------------------------------------

\* The state a handler call starts from: the program state with a fresh ctx
Entry ==
    [tabs |-> tabs, data |-> data, stops |-> stops, nextId |-> nextId,
     ctx |-> FreshCtx, child_calls |-> <<>>, effects |-> <<>>]

\* After construction: one tab, which is the active one.
Init ==
    /\ tabs = <<1>>
    /\ data = [tabs |-> (1 :> [workspace |-> None]), active |-> 0, active_id |-> 1]
    /\ stops = [i \in Ids |-> 0]
    /\ nextId = 2
    /\ ctx = FreshCtx
    /\ child_calls = <<>>
    /\ lastEvent = [kind |-> "none", workspace |-> None]
    /\ old = [tabs |-> tabs, data |-> data, stops |-> stops]
    /\ effects = <<>>
    /\ pass = NoPass
    /\ outcome = "returned"

\* A handler call that panics: nothing of what it did is observed
Panic(ev) ==
    /\ outcome' = "panicked"
    /\ lastEvent' = ev
    /\ old' = [tabs |-> tabs, data |-> data, stops |-> stops]
    /\ pass' = NoPass
    /\ UNCHANGED <<tabs, data, stops, nextId, ctx, child_calls, effects>>

\* One call of the event handler with the event ev
Dispatch(ev) ==
    /\ outcome = "returned"
    /\ IF event_panics(Entry, ev)
       THEN Panic(ev)
       ELSE LET t == event(Entry, ev)
            IN  /\ tabs' = t.tabs
                /\ data' = t.data
                /\ stops' = t.stops
                /\ nextId' = t.nextId
                /\ ctx' = t.ctx
                /\ child_calls' = t.child_calls
                /\ effects' = t.effects
                /\ lastEvent' = ev
                /\ old' = [tabs |-> tabs, data |-> data, stops |-> stops]
                /\ pass' = NoPass
                /\ outcome' = "returned"

\* A lifecycle, update, layout or paint call that gave the record p.  These
\* handlers get data by shared reference and leave it and self.tabs alone.
Observe(p) ==
    /\ outcome = "returned"
    /\ pass' = p
    /\ outcome' = IF p.panicked THEN "panicked" ELSE "returned"
    /\ UNCHANGED <<tabs, data, stops, nextId, ctx, child_calls, lastEvent,
                   old, effects>>

SetWorkspace ==
    /\ nextId <= MaxIds
    /\ \E w \in Workspaces :
           Dispatch([kind |-> "SetWorkspace", workspace |-> Some(w)])

NewTab ==
    /\ nextId <= MaxIds
    /\ Dispatch([kind |-> "NewTab", workspace |-> None])

CloseTab == Dispatch([kind |-> "CloseTab", workspace |-> None])

NextTab == Dispatch([kind |-> "NextTab", workspace |-> None])

PreviousTab == Dispatch([kind |-> "PreviousTab", workspace |-> None])

OtherEvent == \E k \in OtherKinds : Dispatch([kind |-> k, workspace |-> None])

LifeCycle ==
    \E k \in LifeCycleKinds : Observe([lifecycle(tabs, data) EXCEPT !.event = k])

\* The toolkit calls update with the data as it was before the last event, or
\* with data the event left as it was.
Update == \E od \in {old.data, data} : Observe(update(tabs, od, data))

Layout == \E sz \in Sizes : Observe(layout(tabs, data, sz))

Paint == \E sz \in Sizes : Observe(paint(tabs, data, sz))

Next ==
    \/ SetWorkspace
    \/ NewTab
    \/ CloseTab
    \/ NextTab
    \/ PreviousTab
    \/ OtherEvent
    \/ LifeCycle
    \/ Update
    \/ Layout
    \/ Paint

Spec == Init /\ [][Next]_vars

\* ---------------------------------------------------------------------------
\* The handlers entered with any data.  data is the caller's: the handlers
\* get it by reference and nothing in the container keeps the caller from
\* handing over a mapping, an active index and an active identifier that do
\* not fit self.tabs.  SpecEntry starts from every such combination over a
\* few tabs (the index within self.tabs) and runs the same handlers.
\* ---------------------------------------------------------------------------

\* Number of tab widgets in the states SpecEntry starts from
MaxEntryTabs == 3

InitEntry ==
    /\ \E n \in 1..MaxEntryTabs : tabs = [k \in 1..n |-> k]
    /\ \E D \in SUBSET (1..MaxEntryTabs) :
       \E a \in 0..(Len(tabs) - 1) :
       \E aid \in 1..MaxEntryTabs :
           data = [tabs |-> [i \in D |-> [workspace |-> None]],
                   active |-> a, active_id |-> aid]
    /\ stops = [i \in Ids |-> 0]
    /\ nextId = MaxEntryTabs + 1
    /\ ctx = FreshCtx
    /\ child_calls = <<>>
    /\ lastEvent = [kind |-> "none", workspace |-> None]
    /\ old = [tabs |-> tabs, data |-> data, stops |-> stops]
    /\ effects = <<>>
    /\ pass = NoPass
    /\ outcome = "returned"

SpecEntry == InitEntry /\ [][Next]_vars

\* ---------------------------------------------------------------------------
\* Properties
\* ---------------------------------------------------------------------------

\* Identifiers WidgetId::next() has handed out to tabs so far
Created == 1..(nextId - 1)

\* Tabs that were in the container once and no longer are
Gone == Created \ Range(tabs)

\* The identifier the last new_tab call allocated
NewId == nextId - 1

\* How many proxy.stop() calls the last handler call made
StopsMade == { i \in Ids : stops[i] # old.stops[i] }

\* The last handler call left tabs, data and stops as it found them
Untouched == tabs = old.tabs /\ data = old.data /\ stops = old.stops

\* C1: once an operation has returned there is at least one tab, the active
\* index is a valid index of the widget sequence, and the active identifier
\* is the identifier of the widget at the active index.
C1_ActiveConsistent ==
    /\ Len(tabs) >= 1
    /\ data.active >= 0
    /\ data.active < Len(tabs)
    /\ data.active_id = At(tabs, data.active)

\* C1 witness: a close has just removed a tab after tabs were opened and one
\* was replaced, and the selection sits on the last of several tabs.
C1_Witness ==
    /\ lastEvent.kind = "CloseTab"
    /\ Len(old.tabs) = Len(tabs) + 1
    /\ Len(tabs) >= 2
    /\ data.active = Len(tabs) - 1
    /\ Cardinality(Gone) >= 2

\* C2: the proxy of every tab that was closed or replaced has been stopped
\* exactly once, and the proxy of every tab in the container never.
C2_StopExactlyOnce ==
    /\ \A i \in Gone : stops[i] = 1
    /\ \A i \in Range(tabs) : stops[i] = 0

\* C2 witness: a replace has just happened, an earlier tab is gone as well,
\* and more than one tab is still open.
C2_Witness ==
    /\ lastEvent.kind = "SetWorkspace"
    /\ Cardinality(Gone) >= 2
    /\ Len(tabs) >= 2
    /\ old.data.active_id \in Gone

\* C3: CloseTab with n > 1 tabs and the last-indexed tab active removes that
\* tab's widget and state entry, makes index n-2 and the tab there active,
\* and stops the closed tab's proxy exactly once.
C3_CloseLastTab ==
    (/\ lastEvent.kind = "CloseTab"
     /\ Len(old.tabs) > 1
     /\ old.data.active = Len(old.tabs) - 1)
    => /\ tabs = SubSeq(old.tabs, 1, Len(old.tabs) - 1)
       /\ DOMAIN data.tabs = DOMAIN old.data.tabs \ {old.data.active_id}
       /\ old.data.active_id \in DOMAIN old.data.tabs
       /\ data.active = Len(old.tabs) - 2
       /\ data.active_id = At(old.tabs, Len(old.tabs) - 2)
       /\ old.stops[old.data.active_id] = 0
       /\ stops = [old.stops EXCEPT ![old.data.active_id] = 1]

\* C3 witness: tabs [A,B,C] with C active have become [A,B] with B active.
C3_Witness ==
    /\ lastEvent.kind = "CloseTab"
    /\ Len(old.tabs) = 3
    /\ old.data.active = 2
    /\ Len(tabs) = 2
    /\ data.active = 1
    /\ stops[At(old.tabs, 2)] = 1

\* C4: NewTab adds exactly one tab, puts its widget right after the tab that
\* was active, adds its state entry and makes it the active tab.
C4_NewTabInsertsAfterActive ==
    lastEvent.kind = "NewTab"
    => /\ Len(tabs) = Len(old.tabs) + 1
       /\ NewId \notin Range(old.tabs)
       /\ At(tabs, old.data.active + 1) = NewId
       /\ VecRemove(tabs, old.data.active + 1) = old.tabs
       /\ DOMAIN data.tabs = DOMAIN old.data.tabs \cup {NewId}
       /\ \A i \in DOMAIN old.data.tabs : data.tabs[i] = old.data.tabs[i]
       /\ data.active = old.data.active + 1
       /\ data.active_id = NewId

\* C4 witness: a tab was opened between two existing tabs.
C4_Witness ==
    /\ lastEvent.kind = "NewTab"
    /\ Len(old.tabs) >= 2
    /\ old.data.active = 0
    /\ At(tabs, 1) = NewId

\* C5: SetWorkspace keeps the tab count and the active index, puts the new
\* tab's widget at the active index, removes the replaced tab's state entry,
\* stops the replaced tab's proxy and no other, and makes the new tab's
\* identifier the active identifier.
C5_ReplaceCurrent ==
    lastEvent.kind = "SetWorkspace"
    => /\ Len(tabs) = Len(old.tabs)
       /\ data.active = old.data.active
       /\ NewId \notin Range(old.tabs)
       /\ tabs = VecSet(old.tabs, old.data.active, NewId)
       /\ DOMAIN data.tabs =
              (DOMAIN old.data.tabs \ {old.data.active_id}) \cup {NewId}
       /\ data.tabs[NewId].workspace = lastEvent.workspace
       /\ StopsMade = {old.data.active_id}
       /\ stops[old.data.active_id] = old.stops[old.data.active_id] + 1
       /\ data.active_id = NewId
       /\ data.active_id # old.data.active_id

\* C5 witness: the second of several tabs was replaced.
C5_Witness ==
    /\ lastEvent.kind = "SetWorkspace"
    /\ Len(old.tabs) >= 2
    /\ old.data.active = 1
    /\ At(tabs, 1) = NewId
    /\ stops[At(old.tabs, 1)] = 1

\* C6: CloseTab with exactly one tab open changes nothing and emits nothing.
C6_CloseSingleTabNoOp ==
    (lastEvent.kind = "CloseTab" /\ Len(old.tabs) = 1)
    => /\ Untouched
       /\ ctx.submitted = <<>>

\* C6 witness: a close was issued on a single tab after earlier tabs had
\* been opened and closed.
C6_Witness ==
    /\ lastEvent.kind = "CloseTab"
    /\ Len(old.tabs) = 1
    /\ Len(tabs) = 1
    /\ Gone # {}

\* C7: NextTab selects (i+1) mod n and PreviousTab (i-1) mod n, the active
\* identifier follows, and widget sequence and state mapping stay as they are.
C7_CircularSelection ==
    /\ lastEvent.kind = "NextTab"
       => data.active = (old.data.active + 1) % Len(old.tabs)
    /\ lastEvent.kind = "PreviousTab"
       => data.active = (old.data.active - 1) % Len(old.tabs)
    /\ lastEvent.kind \in {"NextTab", "PreviousTab"}
       => /\ data.active_id = At(tabs, data.active)
          /\ tabs = old.tabs
          /\ data.tabs = old.data.tabs

\* C7 witness: with three tabs, NextTab went from index 2 to index 0.
C7_Witness ==
    /\ lastEvent.kind = "NextTab"
    /\ Len(old.tabs) = 3
    /\ old.data.active = 2
    /\ data.active = 0
    /\ data.active_id = At(tabs, 0)

\* C8: every identifier in the widget sequence has an entry in data.tabs.
C8_WidgetsHaveState == Range(tabs) \subseteq DOMAIN data.tabs

\* C8 witness: several tabs are open and the active one was just put in place
\* of another by a replace.
C8_Witness ==
    /\ lastEvent.kind = "SetWorkspace"
    /\ Len(tabs) >= 3
    /\ data.tabs[data.active_id].workspace = lastEvent.workspace
    /\ old.data.active_id \notin DOMAIN data.tabs

\* C9: a recognized container-level command is carried out and is not passed
\* to the event method of any tab widget.
C9_CommandsNotForwarded ==
    lastEvent.kind \in CommandKinds => child_calls = <<>>

\* C10: an event that is not a recognized container-level command is passed
\* to exactly one tab widget, the one at the active index, unhandled and with
\* the container's state untouched; and no handler call ever passes an event
\* to a tab other than the tab at the active index.
C10_OnlyActiveTabGetsEvents ==
    /\ lastEvent.kind \in OtherKinds
       => /\ Len(child_calls) = 1
          /\ child_calls[1].id = At(old.tabs, old.data.active)
          /\ child_calls[1].is_handled = FALSE
          /\ Untouched
    /\ \A k \in 1..Len(child_calls) :
          /\ child_calls[k].index = data.active
          /\ child_calls[k].id = At(tabs, data.active)

\* C10 witness: a key event reached the middle one of three tabs.
C10_Witness ==
    /\ lastEvent.kind = "KeyDown"
    /\ Len(tabs) = 3
    /\ data.active = 1
    /\ Len(child_calls) = 1
    /\ child_calls[1].id = At(tabs, 1)

\* C11: a lifecycle notification is passed to every tab widget in the
\* container exactly once, active or not, and to nothing else.
C11_LifecycleReachesAllTabs ==
    pass.kind = "lifecycle"
    => /\ \A id \in Range(tabs) :
              Cardinality({k \in 1..Len(pass.calls) : pass.calls[k] = id}) = 1
       /\ Range(pass.calls) \subseteq Range(tabs)

\* C11 witness: a lifecycle notification went to three tabs while the first
\* tab was the active one.
C11_Witness ==
    /\ pass.kind = "lifecycle"
    /\ Len(tabs) = 3
    /\ data.active = 0
    /\ Len(pass.calls) = 3
    /\ pass.calls[3] = At(tabs, 2)

\* C12: update asks for a layout pass when the active index differs between
\* old and new data or the active tabs' workspaces differ (and not
\* otherwise), and passes the update to the widget at the active index only.
C12_UpdateRequestsLayout ==
    pass.kind = "update"
    => /\ (pass.layout_requests > 0)
          <=> \/ pass.input.active # data.active
              \/ pass.input.tabs[pass.input.active_id].workspace
                     # data.tabs[data.active_id].workspace
       /\ pass.calls = <<At(tabs, data.active)>>
       /\ \A k \in 1..Len(tabs) :
              k - 1 # data.active => tabs[k] \notin Range(pass.calls)

\* C12 witness: after a replace of the second tab the index is as before,
\* the workspace is not, and update asked for layout.
C12_Witness ==
    /\ pass.kind = "update"
    /\ lastEvent.kind = "SetWorkspace"
    /\ Len(tabs) >= 2
    /\ pass.input.active = data.active
    /\ pass.input.active_id # data.active_id
    /\ pass.layout_requests = 1
    /\ pass.calls = <<data.active_id>>

\* The drawing operations of the last paint call that belong to the strip
StripOps == { k \in 1..Len(pass.drawn) : pass.drawn[k].op # "child" }

\* C13: the strip exists exactly when more than one tab is open.  With more
\* than one tab layout gives the active tab (width, height - 25) under tight
\* constraints at (0, 25) and paint draws the strip; with one tab layout
\* gives it the full size at (0, 0) and paint draws the tab only.  Layout
\* returns the full size either way.
C13_StripIffSeveralTabs ==
    /\ pass.kind = "layout"
       => /\ pass.geometry.returned = pass.input
          /\ pass.geometry.bc_min = pass.geometry.bc_max
          /\ pass.calls = <<At(tabs, data.active)>>
          /\ Len(tabs) > 1
             => /\ pass.geometry.bc_max = <<pass.input[1], pass.input[2] - 25>>
                /\ pass.geometry.origin = <<0, 25>>
          /\ Len(tabs) = 1
             => /\ pass.geometry.bc_max = pass.input
                /\ pass.geometry.origin = <<0, 0>>
    /\ pass.kind = "paint"
       => /\ (StripOps # {}) <=> (Len(tabs) > 1)
          /\ \E k \in 1..Len(pass.drawn) : pass.drawn[k].op = "child"

\* C13 witness: three tabs laid out in 800 x 600, the active one gets
\* 800 x 575 below the strip.
C13_Witness ==
    /\ pass.kind = "layout"
    /\ Len(tabs) = 3
    /\ pass.input = <<800, 600>>
    /\ pass.geometry.bc_max = <<800, 575>>
    /\ pass.geometry.origin = <<0, 25>>

\* C14: a layout pass emits exactly one UpdateWindowOrigin, and its target is
\* the widget of the tab at the active index.
C14_OriginToActiveTab ==
    pass.kind = "layout"
    => /\ Len(pass.submitted) = 1
       /\ pass.submitted[1].cmd = "UpdateWindowOrigin"
       /\ pass.submitted[1].target = <<"Widget", At(tabs, data.active)>>

\* C14 witness: a layout pass after a close that moved the selection to the
\* second of two tabs.
C14_Witness ==
    /\ pass.kind = "layout"
    /\ lastEvent.kind = "CloseTab"
    /\ Len(old.tabs) = 3
    /\ data.active = 1
    /\ pass.submitted[1].target = <<"Widget", At(tabs, 1)>>

\* The labels the last paint call drew in section i of the strip
LabelsDrawn(i) ==
    { pass.drawn[k].text :
        k \in { j \in 1..Len(pass.drawn) :
                  pass.drawn[j].op = "text" /\ pass.drawn[j].section = i } }

\* C15: in the strip a tab without workspace is labelled "Lapce", a tab with
\* a local workspace by the last component of its path, and a tab with a
\* remote workspace by that component followed by " [user@host]".
C15_TabLabels ==
    (pass.kind = "paint" /\ Len(tabs) > 1)
    => \A i \in 0..(Len(tabs) - 1) :
          LET ws == data.tabs[At(tabs, i)].workspace
          IN  /\ ws = <<>> => LabelsDrawn(i) = {"Lapce"}
              /\ ws = <<[path |-> <<"home", "u", "proj">>, kind |-> <<"Local">>]>>
                 => LabelsDrawn(i) = {"proj"}
              /\ ws = <<[path |-> <<"srv", "proj">>,
                         kind |-> <<"RemoteSSH", "bob", "dev1">>]>>
                 => LabelsDrawn(i) = {"proj [bob@dev1]"}
              /\ LabelsDrawn(i) \subseteq {"Lapce", "proj", "proj [bob@dev1]"}

\* C15 witness: a strip was painted with a remote tab and a tab without
\* workspace in it.
C15_Witness ==
    /\ pass.kind = "paint"
    /\ Len(tabs) = 2
    /\ LabelsDrawn(0) = {"Lapce"}
    /\ LabelsDrawn(1) = {"proj [bob@dev1]"}

\* The last event handler call closed or replaced a tab
ClosedOrReplaced ==
    /\ outcome = "returned"
    /\ \/ lastEvent.kind = "SetWorkspace"
       \/ lastEvent.kind = "CloseTab" /\ Len(old.tabs) > 1

\* C16, as claimed: when a tab is closed or replaced, its proxy is stopped
\* before its entry is removed from data.tabs.
C16_StopBeforeRemove ==
    ClosedOrReplaced
    => \E i, j \in 1..Len(effects) :
          /\ i < j
          /\ effects[i] = [op |-> "stop", id |-> old.data.active_id]
          /\ effects[j] = [op |-> "remove", id |-> old.data.active_id]

\* C16, amended: when a tab is closed or replaced, its entry is first removed
\* from data.tabs and the proxy of the removed entry is stopped right after,
\* in the same handler call.
C16_RemoveThenStop ==
    ClosedOrReplaced
    => effects = <<[op |-> "remove", id |-> old.data.active_id],
                   [op |-> "stop", id |-> old.data.active_id]>>

\* C16 witness: the middle one of three tabs was closed, its entry removed
\* and its proxy stopped.
C16_Witness ==
    /\ lastEvent.kind = "CloseTab"
    /\ Len(old.tabs) = 3
    /\ old.data.active = 1
    /\ Len(effects) = 2
    /\ effects[2] = [op |-> "stop", id |-> At(old.tabs, 1)]

\* C18: NewTab, SetWorkspace, NextTab, PreviousTab, and CloseTab with more
\* than one tab open, each emit exactly one FocusTab with the broadcast
\* target, mark the event handled and request layout.
C18_FocusTabHandledLayout ==
    (\/ lastEvent.kind \in {"NewTab", "SetWorkspace", "NextTab", "PreviousTab"}
     \/ lastEvent.kind = "CloseTab" /\ Len(old.tabs) > 1)
    => /\ outcome = "returned"
       /\ ctx.submitted = <<[cmd |-> "FocusTab", target |-> "Auto"]>>
       /\ ctx.is_handled
       /\ ctx.layout_requested

\* C18 witness: PreviousTab wrapped from the first of three tabs to the last.
C18_Witness ==
    /\ lastEvent.kind = "PreviousTab"
    /\ Len(tabs) = 3
    /\ old.data.active = 0
    /\ data.active = 2
    /\ Len(ctx.submitted) = 1
    /\ ctx.is_handled

\* C19: CloseTab with more than one tab open and the active tab not the
\* last one keeps the active index and makes the tab that followed the closed
\* one active; every CloseTab that closes a tab leaves the other tabs in
\* their order, with their state entries, and stops none of their proxies.
C19_CloseKeepsOthers ==
    (lastEvent.kind = "CloseTab" /\ Len(old.tabs) > 1)
    => LET closed == old.data.active_id
           NotClosed(id) == id # closed
       IN  /\ old.data.active < Len(old.tabs) - 1
              => /\ data.active = old.data.active
                 /\ data.active_id = At(old.tabs, old.data.active + 1)
           /\ tabs = SelectSeq(old.tabs, NotClosed)
           /\ Len(tabs) = Len(old.tabs) - 1
           /\ \A id \in Range(tabs) :
                  /\ id \in DOMAIN data.tabs
                  /\ data.tabs[id] = old.data.tabs[id]
           /\ \A id \in Ids : id # closed => stops[id] = old.stops[id]

\* C19 witness: the first of three tabs was closed and the tab that followed
\* it is the active one, at index 0.
C19_Witness ==
    /\ lastEvent.kind = "CloseTab"
    /\ Len(old.tabs) = 3
    /\ old.data.active = 0
    /\ data.active = 0
    /\ data.active_id = At(old.tabs, 1)
    /\ tabs = <<At(old.tabs, 1), At(old.tabs, 2)>>

\* C20: data.tabs has no orphan entries: its keys are exactly the identifiers
\* in self.tabs, so its size is the number of tab widgets, and the proxies
\* not stopped are as many as the tabs.
C20_NoOrphanEntries ==
    /\ DOMAIN data.tabs = Range(tabs)
    /\ Cardinality(DOMAIN data.tabs) = Len(tabs)
    /\ Cardinality({ i \in Created : stops[i] = 0 }) = Len(tabs)

\* C20 witness: closes have brought the container back to one tab and one
\* entry after a replace and a close.
C20_Witness ==
    /\ lastEvent.kind = "CloseTab"
    /\ Len(old.tabs) = 2
    /\ Len(tabs) = 1
    /\ Cardinality(DOMAIN data.tabs) = 1
    /\ Cardinality(Gone) >= 2

\* The last handler call was the event handler, given a command of kind k,
\* and found the active identifier without an entry in data.tabs
EnteredWithoutEntry(k) ==
    /\ pass.kind = "none"
    /\ lastEvent.kind = k
    /\ old.data.active_id \notin DOMAIN old.data.tabs

====
